---- MODULE Spec2Model ----
(* A model of libfido2's device session and manifest-provider registry      *)
(* (src/src/dev.c).  The session API is modelled one action per exported   *)
(* function; the handlers are pure operators over a "world" record so that *)
(* the same code can be run atomically (Spec) or statement by statement    *)
(* from two threads (SpecMT).                                              *)
EXTENDS Integers, Sequences, FiniteSets, TLC

VARIABLES
    dev,        \* the fido_dev_t: io_handle, cid, nonce, attr, io (dev_info->io)
    live,       \* handles returned by io.open and not yet given to io.close
    dbl,        \* TRUE once io.close was called on a handle that is not live
    last,       \* what the last API call did: op, ret and its I/O log
    fuzz,       \* TRUE in a build with FIDO_FUZZ defined
    pc,         \* SpecMT: per-thread position inside fido_dev_open
    tl,         \* SpecMT: per-thread locals and per-call flags
    manifest_funcs, \* the global list of manifest providers, head first
    logging,    \* TRUE once fido_log_init was called
    platform,   \* the platform the library was built for
    lastm       \* what the last call on the provider list did

sessVars == <<dev, live, dbl, last, fuzz>>
mtVars == <<pc, tl>>
regVars == <<manifest_funcs, logging, platform, lastm>>
vars == <<dev, live, dbl, last, fuzz, pc, tl, manifest_funcs, logging, platform, lastm>>

(* ------------------------------ bounds ------------------------------ *)
MaxHandles == 2
MaxNonce == 2

(* ----------------------------- constants ---------------------------- *)
NULL == 0
(* 32-bit channel ids are written as their hexadecimal numerals: only     *)
(* equality is ever taken of them                                         *)
CTAP_CID_BROADCAST == "0xFFFFFFFF"
CTAP_FRAME_INIT == 128
CTAP_CMD_INIT == 6
CTAP_CMD_CANCEL == 17
FIDO_CAP_CBOR == 4
SizeofNonce == 8
SizeofAttr == 17

Handles == 1..MaxHandles
Nonces == 1..MaxNonce
Threads == {1, 2}

FIDO_OK == "FIDO_OK"
FIDO_ERR_TX == "FIDO_ERR_TX"
FIDO_ERR_RX == "FIDO_ERR_RX"
FIDO_ERR_INVALID_ARGUMENT == "FIDO_ERR_INVALID_ARGUMENT"
FIDO_ERR_INTERNAL == "FIDO_ERR_INTERNAL"

(* -------------------------- bit arithmetic -------------------------- *)
RECURSIVE BitAnd(_, _)
BitAnd(a, b) ==
    IF a = 0 \/ b = 0 THEN 0
    ELSE ((a % 2) * (b % 2)) + 2 * BitAnd(a \div 2, b \div 2)

RECURSIVE BitOr(_, _)
BitOr(a, b) ==
    IF a = 0 THEN b
    ELSE IF b = 0 THEN a
    ELSE (IF a % 2 = 1 \/ b % 2 = 1 THEN 1 ELSE 0) + 2 * BitOr(a \div 2, b \div 2)

(* uint8_t result of  x & ~mask  *)
BitClear8(x, mask) == BitAnd(x, 255 - (mask % 256))

(* ------------------------- the I/O vtable --------------------------- *)
NULLFN == "NULL"

HidIo ==
    [open |-> "fido_hid_open", close |-> "fido_hid_close",
     read |-> "fido_hid_read", write |-> "fido_hid_write"]

UserIo ==
    [open |-> "user_open", close |-> "user_close",
     read |-> "user_read", write |-> "user_write"]

(* the vtables a caller may pass to fido_dev_set_io_functions: complete   *)
(* ones and ones with a single null slot                                  *)
IoTables ==
    {HidIo, UserIo}
    \cup {[UserIo EXCEPT ![f] = NULLFN] : f \in {"open", "close", "read", "write"}}

(* a  const fido_dev_io_t *  argument: <<>> is the null pointer *)
IoArgs == {<<>>} \cup {<<t>> : t \in IoTables}

(* --------------------------- the session ---------------------------- *)
ZeroAttr ==
    [nonce |-> 0, cid |-> "0x00000000", protocol |-> 0, major |-> 0, minor |-> 0,
     build |-> 0, flags |-> 0]

(* fido_dev_new: calloc, cid = broadcast, default HID vtable *)
fido_dev_new ==
    [io_handle |-> NULL, cid |-> CTAP_CID_BROADCAST, nonce |-> 0,
     attr |-> ZeroAttr, io |-> HidIo]

(* what one API call did: events lists, in the order they happened, the   *)
(* calls it made to obtain_nonce, io.open, io.close, fido_tx (when it     *)
(* writes) and fido_rx (when it reads)                                    *)
EmptyLog ==
    [op |-> "none", ret |-> FIDO_OK, nopen |-> 0, opened |-> <<>>,
     closed |-> <<>>, frames |-> <<>>, nread |-> 0, rx |-> <<>>, arg |-> <<>>,
     events |-> <<>>]

World == [dev |-> dev, live |-> live, dbl |-> dbl, log |-> last]

(* the same world at the start of a new API call *)
Fresh(op) == [World EXCEPT !.log = [EmptyLog EXCEPT !.op = op]]

(* ------------------- environment: the transport --------------------- *)
(* dev_info->io.open(path): h = NULL is a failed open *)
io_open(w, h) ==
    IF h = NULL
    THEN [w EXCEPT !.log.nopen = @ + 1,
                   !.log.events = Append(@, "io_open")]
    ELSE [w EXCEPT !.log.nopen = @ + 1,
                   !.log.events = Append(@, "io_open"),
                   !.log.opened = Append(@, h),
                   !.live = @ \cup {h}]

(* dev_info->io.close(handle) *)
io_close(w, h) ==
    [w EXCEPT !.log.closed = Append(@, h),
              !.log.events = Append(@, "io_close"),
              !.live = @ \ {h},
              !.dbl = @ \/ (h \notin w.live)]

(* fido_tx(dev, cmd, buf, count): refuses without a handle; otherwise     *)
(* writes the message on the session's channel id.  The messages sent     *)
(* here (8 and 0 bytes) fit the 57 payload bytes of one INIT frame, so    *)
(* each is one write.  wok = FALSE: io.write failed.  Result <<w, r>>.    *)
fido_tx(w, cmd, data, count, wok) ==
    IF w.dev.io_handle = NULL
    THEN <<w, -1>>
    ELSE <<[w EXCEPT !.log.frames =
                Append(@, [cid |-> w.dev.cid, cmd |-> cmd, data |-> data,
                           count |-> count, handle |-> w.dev.io_handle,
                           ok |-> wok]),
                     !.log.events = Append(@, "write")],
           IF wok THEN 0 ELSE -1>>

(* byte offset one past each field of the packed fido_ctap_info_t *)
AttrEnd ==
    [nonce |-> 8, cid |-> 12, protocol |-> 13, major |-> 14, minor |-> 15,
     build |-> 16, flags |-> 17]

(* memcpy of the first n bytes of reply over buf *)
CopyBytes(buf, reply, n) ==
    [f \in DOMAIN buf |-> IF AttrEnd[f] <= n THEN reply[f] ELSE buf[f]]

(* fido_rx(dev, cmd, buf, count, ms): rx = [n, reply]; n < 0 is a failed   *)
(* or timed-out read, otherwise the first n bytes of the reply are stored *)
(* in buf.  Result <<w, n, buf'>>.                                        *)
fido_rx(w, cmd, buf, count, rx) ==
    IF w.dev.io_handle = NULL
    THEN <<w, -1, buf>>
    ELSE IF rx.n < 0 \/ rx.n > count
    THEN <<[w EXCEPT !.log.nread = @ + 1,
                     !.log.events = Append(@, "read")], -1, buf>>
    ELSE <<[w EXCEPT !.log.nread = @ + 1, !.log.rx = <<rx>>,
                     !.log.events = Append(@, "read")],
           rx.n, CopyBytes(buf, rx.reply, rx.n)>>

(* the INIT replies a device may send (without the nonce) *)
Devices ==
    { [cid |-> "0xCAFEBABE", protocol |-> 2, major |-> 1, minor |-> 0,
       build |-> 0, flags |-> 5],
      [cid |-> "0x00000001", protocol |-> 1, major |-> 5, minor |-> 6,
       build |-> 7, flags |-> 9] }

Replies ==
    { [nonce |-> n, cid |-> d.cid, protocol |-> d.protocol, major |-> d.major,
       minor |-> d.minor, build |-> d.build, flags |-> d.flags]
        : n \in Nonces, d \in Devices }

(* what a read may report: a failure (n = -1), or the first n bytes of a  *)
(* reply, n on a field boundary of the attribute record.  Where the reply *)
(* is not looked at, one stands for all                                   *)
DefReply == CHOOSE r \in Replies : TRUE

RxSizes == {12, SizeofAttr}

RxOutcomes ==
    {[n |-> -1, reply |-> DefReply], [n |-> 0, reply |-> DefReply]}
    \cup [n : RxSizes, reply : Replies]

DefRx == [n |-> -1, reply |-> DefReply]

DefEnv == [rng |-> "fail", nonce |-> 1, h |-> NULL, wok |-> FALSE, rx |-> DefRx]

(* what the environment decides during one open.  rng: "ok", "fail" (the  *)
(* random device cannot be opened) or "short" (a short read: bytes were   *)
(* stored but obtain_nonce fails).  h: the handle io.open returns.  wok:  *)
(* whether io.write succeeds.  rx: what fido_rx reads.  A step that an    *)
(* earlier failure keeps from running has its choice fixed.               *)
OpenEnvs ==
    {DefEnv}
    \cup {[rng |-> "short", nonce |-> n, h |-> NULL, wok |-> FALSE, rx |-> DefRx]
             : n \in Nonces}
    \cup {[rng |-> "ok", nonce |-> n, h |-> NULL, wok |-> FALSE, rx |-> DefRx]
             : n \in Nonces}
    \cup {[rng |-> "ok", nonce |-> n, h |-> h, wok |-> FALSE, rx |-> DefRx]
             : n \in Nonces, h \in Handles}
    \cup {[rng |-> "ok", nonce |-> n, h |-> h, wok |-> TRUE, rx |-> rx]
             : n \in Nonces, h \in Handles, rx \in RxOutcomes}

(* io.open never returns a handle that is still open.  Handles are opaque *)
(* and interchangeable, so the lowest free one stands for any free one    *)
EnvOk(e) ==
    e.h = NULL \/ (e.h \notin live /\ \A g \in Handles \ live : e.h <= g)

Paths == {"/dev/hidraw0"}

(* --------------------------- obtain_nonce --------------------------- *)
(* result <<nonce', r>> *)
obtain_nonce(nonce, e) ==
    IF e.rng = "ok" THEN <<e.nonce, 0>>
    ELSE IF e.rng = "short" THEN <<e.nonce, -1>>
    ELSE <<nonce, -1>>

(* ------------------------- fido_dev_open_tx ------------------------- *)
(* faulty variant: the check of the handle is missing *)
OpenTxCheck_NoHandleCheck(w) ==
    IF w.dev.io.open = NULLFN \/ w.dev.io.close = NULLFN
    THEN FIDO_ERR_INVALID_ARGUMENT
    ELSE FIDO_OK

(* lines 82-90: the argument checks *)
OpenTxCheck(w) ==
    IF w.dev.io_handle # NULL THEN FIDO_ERR_INVALID_ARGUMENT
    ELSE IF w.dev.io.open = NULLFN \/ w.dev.io.close = NULLFN
    THEN FIDO_ERR_INVALID_ARGUMENT
    ELSE FIDO_OK

(* lines 92-95 *)
OpenTxNonce(w, e) ==
    LET n == obtain_nonce(w.dev.nonce, e)
        w1 == [w EXCEPT !.dev.nonce = n[1],
                        !.log.events = Append(@, "obtain_nonce")]
    IN  IF n[2] < 0 THEN <<w1, FIDO_ERR_INTERNAL>> ELSE <<w1, FIDO_OK>>

(* faulty variant: a failed io.open is reported as a bad argument *)
OpenTxOpen_WrongCode(w, path, e) ==
    LET w1 == [io_open(w, e.h) EXCEPT !.dev.io_handle = e.h]
    IN  IF e.h = NULL THEN <<w1, FIDO_ERR_INVALID_ARGUMENT>> ELSE <<w1, FIDO_OK>>

(* lines 97-100 *)
OpenTxOpen(w, path, e) ==
    LET w1 == [io_open(w, e.h) EXCEPT !.dev.io_handle = e.h]
    IN  IF e.h = NULL THEN <<w1, FIDO_ERR_INTERNAL>> ELSE <<w1, FIDO_OK>>

(* faulty variant: a failed write leaves the handle open and in place *)
OpenTxSend_NoCleanup(w, e) ==
    LET t == fido_tx(w, CTAP_FRAME_INIT + CTAP_CMD_INIT, w.dev.nonce,
                     SizeofNonce, e.wok)
    IN  IF t[2] < 0 THEN <<t[1], FIDO_ERR_TX>> ELSE <<t[1], FIDO_OK>>

(* lines 102-109 *)
OpenTxSend(w, e) ==
    LET t == fido_tx(w, CTAP_FRAME_INIT + CTAP_CMD_INIT, w.dev.nonce,
                     SizeofNonce, e.wok)
    IN  IF t[2] < 0
        THEN <<[io_close(t[1], t[1].dev.io_handle) EXCEPT !.dev.io_handle = NULL],
               FIDO_ERR_TX>>
        ELSE <<t[1], FIDO_OK>>

(* faulty variant: io.open is called before the nonce is obtained *)
fido_dev_open_tx_OpenFirst(w, path, e) ==
    LET c == OpenTxCheck(w) IN
    IF c # FIDO_OK THEN <<w, c>>
    ELSE LET o == OpenTxOpen(w, path, e) IN
         IF o[2] # FIDO_OK THEN o
         ELSE LET n == OpenTxNonce(o[1], e) IN
              IF n[2] # FIDO_OK THEN n
              ELSE OpenTxSend(n[1], e)

fido_dev_open_tx(w, path, e) ==
    LET c == OpenTxCheck(w) IN
    IF c # FIDO_OK THEN <<w, c>>
    ELSE LET n == OpenTxNonce(w, e) IN
         IF n[2] # FIDO_OK THEN n
         ELSE LET o == OpenTxOpen(n[1], path, e) IN
              IF o[2] # FIDO_OK THEN o
              ELSE OpenTxSend(o[1], e)

(* ------------------------- fido_dev_open_rx ------------------------- *)
(* faulty variant: the handle is forgotten without io.close *)
OpenRxFail_NoClose(w) ==
    <<[w EXCEPT !.dev.io_handle = NULL], FIDO_ERR_RX>>

(* lines 134-139: the fail label *)
OpenRxFail(w) ==
    <<[io_close(w, w.dev.io_handle) EXCEPT !.dev.io_handle = NULL], FIDO_ERR_RX>>

(* faulty variant: the reply's nonce is not compared (what FIDO_FUZZ      *)
(* does, in every build)                                                 *)
fido_dev_open_rx_NoNonceCheck(w, ms, e) ==
    LET r  == fido_rx(w, CTAP_FRAME_INIT + CTAP_CMD_INIT, w.dev.attr,
                      SizeofAttr, e.rx)
        n  == r[2]
        w1 == [r[1] EXCEPT !.dev.attr = r[3]]
    IN  IF n < 0 THEN OpenRxFail(w1)
        ELSE IF n # SizeofAttr THEN OpenRxFail(w1)
        ELSE <<[w1 EXCEPT !.dev.cid = w1.dev.attr.cid], FIDO_OK>>

(* faulty variant: the assigned channel id is not stored *)
fido_dev_open_rx_NoCid(w, ms, e) ==
    LET r  == fido_rx(w, CTAP_FRAME_INIT + CTAP_CMD_INIT, w.dev.attr,
                      SizeofAttr, e.rx)
        n  == r[2]
        w1 == [r[1] EXCEPT !.dev.attr = r[3]]
        w2 == IF fuzz THEN [w1 EXCEPT !.dev.attr.nonce = w1.dev.nonce] ELSE w1
    IN  IF n < 0 THEN OpenRxFail(w1)
        ELSE IF n # SizeofAttr \/ w2.dev.attr.nonce # w2.dev.nonce
        THEN OpenRxFail(w2)
        ELSE <<w2, FIDO_OK>>

fido_dev_open_rx(w, ms, e) ==
    LET r  == fido_rx(w, CTAP_FRAME_INIT + CTAP_CMD_INIT, w.dev.attr,
                      SizeofAttr, e.rx)
        n  == r[2]
        w1 == [r[1] EXCEPT !.dev.attr = r[3]]
        w2 == IF fuzz THEN [w1 EXCEPT !.dev.attr.nonce = w1.dev.nonce] ELSE w1
    IN  IF n < 0 THEN OpenRxFail(w1)
        ELSE IF n # SizeofAttr \/ w2.dev.attr.nonce # w2.dev.nonce
        THEN OpenRxFail(w2)
        ELSE <<[w2 EXCEPT !.dev.cid = w2.dev.attr.cid], FIDO_OK>>

fido_dev_open_wait(w, path, ms, e) ==
    LET t == fido_dev_open_tx(w, path, e) IN
    IF t[2] # FIDO_OK THEN t ELSE fido_dev_open_rx(t[1], ms, e)

(* dev_info->path of a session made by fido_dev_new *)
InfoPath == "NULL"

fido_dev_open_wait_with_info(w, ms, e) ==
    LET t == fido_dev_open_tx(w, InfoPath, e) IN
    IF t[2] # FIDO_OK THEN t ELSE fido_dev_open_rx(t[1], ms, e)

fido_dev_open(w, path, e) == fido_dev_open_wait(w, path, -1, e)

fido_dev_open_with_info(w, e) == fido_dev_open_wait_with_info(w, -1, e)

(* -------------------- close, cancel, set_io ------------------------- *)
(* faulty variant: the handle is closed but not forgotten *)
fido_dev_close_KeepsHandle(w) ==
    IF w.dev.io_handle = NULL \/ w.dev.io.close = NULLFN
    THEN <<w, FIDO_ERR_INVALID_ARGUMENT>>
    ELSE <<io_close(w, w.dev.io_handle), FIDO_OK>>

(* faulty variant: the check of the handle is missing *)
fido_dev_close_NoHandleCheck(w) ==
    IF w.dev.io.close = NULLFN
    THEN <<w, FIDO_ERR_INVALID_ARGUMENT>>
    ELSE <<[io_close(w, w.dev.io_handle) EXCEPT !.dev.io_handle = NULL], FIDO_OK>>

fido_dev_close(w) ==
    IF w.dev.io_handle = NULL \/ w.dev.io.close = NULLFN
    THEN <<w, FIDO_ERR_INVALID_ARGUMENT>>
    ELSE <<[io_close(w, w.dev.io_handle) EXCEPT !.dev.io_handle = NULL], FIDO_OK>>

(* faulty variant: the result of fido_tx is ignored *)
fido_dev_cancel_IgnoresTx(w, wok) ==
    LET t == fido_tx(w, CTAP_FRAME_INIT + CTAP_CMD_CANCEL, NULL, 0, wok)
    IN  <<t[1], FIDO_OK>>

fido_dev_cancel(w, wok) ==
    LET t == fido_tx(w, CTAP_FRAME_INIT + CTAP_CMD_CANCEL, NULL, 0, wok)
    IN  IF t[2] < 0 THEN <<t[1], FIDO_ERR_TX>> ELSE <<t[1], FIDO_OK>>

(* faulty variant: the check of the handle is missing *)
fido_dev_set_io_functions_NoHandleCheck(w, io) ==
    IF io = <<>> \/ io[1].open = NULLFN \/ io[1].close = NULLFN
       \/ io[1].read = NULLFN \/ io[1].write = NULLFN
    THEN <<w, FIDO_ERR_INVALID_ARGUMENT>>
    ELSE <<[w EXCEPT !.dev.io = io[1]], FIDO_OK>>

fido_dev_set_io_functions(w, io) ==
    IF w.dev.io_handle # NULL THEN <<w, FIDO_ERR_INVALID_ARGUMENT>>
    ELSE IF io = <<>> \/ io[1].open = NULLFN \/ io[1].close = NULLFN
            \/ io[1].read = NULLFN \/ io[1].write = NULLFN
    THEN <<w, FIDO_ERR_INVALID_ARGUMENT>>
    ELSE <<[w EXCEPT !.dev.io = io[1]], FIDO_OK>>

(* ------------------------ attribute readers ------------------------- *)
fido_dev_protocol(d) == d.attr.protocol
fido_dev_major(d) == d.attr.major
fido_dev_minor(d) == d.attr.minor
fido_dev_build(d) == d.attr.build
fido_dev_flags(d) == d.attr.flags
fido_dev_is_fido2(d) == BitAnd(d.attr.flags, FIDO_CAP_CBOR) # 0

(* faulty variant: every capability bit is cleared *)
fido_dev_force_u2f_ClearsAll(w) ==
    [w EXCEPT !.dev.attr.flags = 0]

fido_dev_force_u2f(w) ==
    [w EXCEPT !.dev.attr.flags = BitClear8(@, FIDO_CAP_CBOR)]

fido_dev_force_fido2(w) ==
    [w EXCEPT !.dev.attr.flags = BitOr(@, FIDO_CAP_CBOR) % 256]

(* ------------------------------ actions ----------------------------- *)
Commit(r) ==
    /\ dev' = r[1].dev
    /\ live' = r[1].live
    /\ dbl' = r[1].dbl
    /\ last' = [r[1].log EXCEPT !.ret = r[2]]
    /\ UNCHANGED <<fuzz, pc, tl>>
    /\ UNCHANGED regVars

Open ==
    \E path \in Paths, e \in OpenEnvs :
        EnvOk(e) /\ Commit(fido_dev_open(Fresh("fido_dev_open"), path, e))

OpenWithInfo ==
    \E e \in OpenEnvs :
        EnvOk(e) /\ Commit(fido_dev_open_with_info(Fresh("fido_dev_open_with_info"), e))

Close == Commit(fido_dev_close(Fresh("fido_dev_close")))

Cancel == \E wok \in BOOLEAN : Commit(fido_dev_cancel(Fresh("fido_dev_cancel"), wok))

SetIo ==
    \E io \in IoArgs :
        Commit(fido_dev_set_io_functions(
                   [Fresh("fido_dev_set_io_functions") EXCEPT !.log.arg = io], io))

ForceU2f == Commit(<<fido_dev_force_u2f(Fresh("fido_dev_force_u2f")), FIDO_OK>>)

ForceFido2 == Commit(<<fido_dev_force_fido2(Fresh("fido_dev_force_fido2")), FIDO_OK>>)

Idle == [t \in Threads |-> "idle"]
NoLocals == [t \in Threads |-> [r |-> FIDO_OK, called |-> FALSE, got |-> NULL]]

(* what a call on the provider list did: its argument (arg, ilen), its    *)
(* result (ret, olen, devlist), the provider calls it made and the number *)
(* of nodes it freed                                                      *)
EmptyCall ==
    [op |-> "none", ret |-> FIDO_OK, arg |-> <<>>, ilen |-> 0, olen |-> 0,
     devlist |-> <<>>, calls |-> <<>>, freed |-> 0]

InitSession ==
    /\ dev = fido_dev_new
    /\ live = {}
    /\ dbl = FALSE
    /\ last = EmptyLog
    /\ pc = Idle
    /\ tl = NoLocals

InitRegistry ==
    /\ manifest_funcs = <<>>
    /\ logging = FALSE
    /\ lastm = EmptyCall

(* one session used from one thread, in either build *)
Init ==
    /\ InitSession
    /\ fuzz \in BOOLEAN
    /\ InitRegistry
    /\ platform = "NONE"

Next ==
    \/ Open
    \/ OpenWithInfo
    \/ Close
    \/ Cancel
    \/ SetIo
    \/ ForceU2f
    \/ ForceFido2

Spec == Init /\ [][Next]_vars

(* ------------- two threads calling into one session ----------------- *)
(* fido_dev_open run statement by statement; the session has no lock, so  *)
(* the statements of two calls interleave freely.                         *)
MTCommit(w) ==
    /\ dev' = w.dev
    /\ live' = w.live
    /\ dbl' = w.dbl
    /\ UNCHANGED <<last, fuzz>>
    /\ UNCHANGED regVars

MTReturn(t, r) == pc' = [pc EXCEPT ![t] = "idle"] /\ tl' = [tl EXCEPT ![t].r = r]

MTGoto(t, l) == pc' = [pc EXCEPT ![t] = l] /\ UNCHANGED tl

(* thread t enters fido_dev_open *)
MT_Call(t) ==
    /\ pc[t] = "idle"
    /\ pc' = [pc EXCEPT ![t] = "check"]
    /\ tl' = [tl EXCEPT ![t] = [r |-> FIDO_OK, called |-> FALSE, got |-> NULL]]
    /\ UNCHANGED sessVars
    /\ UNCHANGED regVars

(* lines 82-90 *)
MT_Check(t) ==
    /\ pc[t] = "check"
    /\ LET c == OpenTxCheck(World) IN
        IF c # FIDO_OK THEN MTReturn(t, c) ELSE MTGoto(t, "nonce")
    /\ UNCHANGED sessVars
    /\ UNCHANGED regVars

(* lines 92-95 *)
MT_Nonce(t) ==
    /\ pc[t] = "nonce"
    /\ \E e \in OpenEnvs :
        /\ e.h = NULL
        /\ LET n == OpenTxNonce(World, e) IN
            /\ MTCommit(n[1])
            /\ IF n[2] # FIDO_OK THEN MTReturn(t, n[2]) ELSE MTGoto(t, "io_open")

(* lines 97-100 *)
MT_IoOpen(t) ==
    /\ pc[t] = "io_open"
    /\ \E h \in {NULL} \cup Handles :
        LET e == [DefEnv EXCEPT !.h = h]
            o == OpenTxOpen(World, InfoPath, e)
        IN  /\ EnvOk(e)
            /\ MTCommit(o[1])
            /\ pc' = [pc EXCEPT ![t] = IF o[2] # FIDO_OK THEN "idle" ELSE "send"]
            /\ tl' = [tl EXCEPT ![t] = [r |-> o[2], called |-> TRUE, got |-> h]]

(* lines 102-109 *)
MT_Send(t) ==
    /\ pc[t] = "send"
    /\ \E wok \in BOOLEAN :
        LET x == OpenTxSend(World, [DefEnv EXCEPT !.wok = wok]) IN
            /\ MTCommit(x[1])
            /\ IF x[2] # FIDO_OK THEN MTReturn(t, x[2]) ELSE MTGoto(t, "recv")

(* fido_dev_open_rx, lines 112-140 *)
MT_Recv(t) ==
    /\ pc[t] = "recv"
    /\ \E rx \in RxOutcomes :
        LET x == fido_dev_open_rx(World, -1, [DefEnv EXCEPT !.rx = rx]) IN
            /\ MTCommit(x[1])
            /\ MTReturn(t, x[2])

(* a thread that is not inside open calls fido_dev_close *)
MT_Close(t) ==
    /\ pc[t] = "idle"
    /\ LET x == fido_dev_close(World) IN
        /\ MTCommit(x[1])
        /\ MTReturn(t, x[2])

NextMT ==
    \E t \in Threads :
        \/ MT_Call(t)
        \/ MT_Check(t)
        \/ MT_Nonce(t)
        \/ MT_IoOpen(t)
        \/ MT_Send(t)
        \/ MT_Recv(t)
        \/ MT_Close(t)

SpecMT == Init /\ [][NextMT]_vars

(* ------------------- the manifest-provider list --------------------- *)
MaxFuncs == 2
MaxIlen == 2
MaxDevs == 1

Platforms == {"LINUX", "LINUX_HIDAPI", "OSX", "WIN", "OPENBSD", "NONE"}

(* the provider fido_init registers in each build, <<>> for none *)
PlatformFunc(p) ==
    CASE p = "LINUX" -> <<"fido_dev_info_manifest_linux">>
      [] p = "LINUX_HIDAPI" -> <<"hidapi_dev_info_manifest">>
      [] p = "OSX" -> <<"fido_dev_info_manifest_osx">>
      [] p = "WIN" -> <<"fido_dev_info_manifest_win">>
      [] p = "OPENBSD" -> <<"fido_dev_info_manifest_openbsd">>
      [] OTHER -> <<>>

(* the providers a caller may register itself *)
UserFuncs == {"user_manifest_a", "user_manifest_b"}

(* faulty variant: the new node is not linked to the list it heads *)
fido_dev_register_manifest_func_Unlinked(list, func, calloc_ok) ==
    IF ~calloc_ok THEN <<list, FIDO_ERR_INTERNAL>>
    ELSE <<<<func>>, FIDO_OK>>

(* fido_dev_register_manifest_func: the new node becomes the head of the  *)
(* list.  Result <<list', r>>.                                            *)
fido_dev_register_manifest_func(list, func, calloc_ok) ==
    IF ~calloc_ok THEN <<list, FIDO_ERR_INTERNAL>>
    ELSE <<<<func>> \o list, FIDO_OK>>

(* fido_init: registers the build's provider; the result of the          *)
(* registration is not looked at                                          *)
fido_init(list, p, calloc_ok) ==
    IF PlatformFunc(p) = <<>> THEN list
    ELSE fido_dev_register_manifest_func(list, PlatformFunc(p)[1], calloc_ok)[1]

(* faulty variant: only the head node is freed and unlinked *)
fido_exit_HeadOnly(list) ==
    IF list = <<>> THEN <<list, 0>> ELSE <<Tail(list), 1>>

(* the while loop of fido_exit: frees node after node; n counts them *)
RECURSIVE FreeNodes(_, _)
FreeNodes(curr, n) ==
    IF curr = <<>> THEN n ELSE FreeNodes(Tail(curr), n + 1)

(* fido_exit: result <<list', nodes freed>> *)
fido_exit(list) == <<<<>>, FreeNodes(list, 0)>>

(* size_t arithmetic wraps; SIZE_MODULUS stands for 2^64, which is beyond  *)
(* TLC's integers: only whether a difference wraps is looked at           *)
SIZE_MODULUS == 65536

SizeSub(a, b) == (a - b) % SIZE_MODULUS
SizeAdd(a, b) == (a + b) % SIZE_MODULUS

(* one provider call m_func(devlist + off, cap, &curr_olen): out.r is its *)
(* result and out.n the count it reports in curr_olen, having stored that *)
(* many entries from devlist + off on; nothing in fido_dev_info_manifest  *)
(* holds a provider to its capacity                                       *)
ProviderDevs(func, out) ==
    [i \in 1..out.n |-> <<func, i>>]

(* faulty variant: the loop does not stop when the list is full *)
RECURSIVE ManifestLoop_NoBreak(_, _, _, _, _)
ManifestLoop_NoBreak(list, k, ilen, outs, c) ==
    IF k > Len(list) THEN [c EXCEPT !.ret = FIDO_OK]
    ELSE LET cap == SizeSub(ilen, c.olen)
             c1  == [c EXCEPT !.calls = Append(@, [func |-> list[k],
                                                   off |-> c.olen, cap |-> cap,
                                                   r |-> outs[k].r,
                                                   n |-> outs[k].n])]
         IN  IF outs[k].r # FIDO_OK THEN [c1 EXCEPT !.ret = outs[k].r]
             ELSE ManifestLoop_NoBreak(list, k + 1, ilen, outs,
                      [c1 EXCEPT !.olen = SizeAdd(@, outs[k].n),
                                 !.devlist = @ \o ProviderDevs(list[k], outs[k])])

(* fido_dev_info_manifest: the loop from node k of the list on, with c the *)
(* call record so far; outs[k] is what the k-th provider call answers      *)
RECURSIVE ManifestLoop(_, _, _, _, _)
ManifestLoop(list, k, ilen, outs, c) ==
    IF k > Len(list) THEN [c EXCEPT !.ret = FIDO_OK]
    ELSE LET cap == SizeSub(ilen, c.olen)
             c1  == [c EXCEPT !.calls = Append(@, [func |-> list[k],
                                                   off |-> c.olen, cap |-> cap,
                                                   r |-> outs[k].r,
                                                   n |-> outs[k].n])]
         IN  IF outs[k].r # FIDO_OK THEN [c1 EXCEPT !.ret = outs[k].r]
             ELSE LET c2 == [c1 EXCEPT !.olen = SizeAdd(@, outs[k].n),
                                       !.devlist = @ \o ProviderDevs(list[k], outs[k])]
                  IN  IF c2.olen = ilen THEN [c2 EXCEPT !.ret = FIDO_OK]
                      ELSE ManifestLoop(list, k + 1, ilen, outs, c2)

fido_dev_info_manifest(list, ilen, outs) ==
    ManifestLoop(list, 1, ilen, outs,
                 [EmptyCall EXCEPT !.op = "fido_dev_info_manifest", !.ilen = ilen])

ProviderOuts ==
    {[r |-> FIDO_ERR_INTERNAL, n |-> 0]} \cup [r : {FIDO_OK}, n : 0..MaxDevs]


RegCommit(list, c) ==
    /\ manifest_funcs' = list
    /\ lastm' = c
    /\ UNCHANGED <<platform>>
    /\ UNCHANGED sessVars
    /\ UNCHANGED mtVars

(* fido_init(flags): dbg is  flags & FIDO_DEBUG || getenv("FIDO_DEBUG");  *)
(* in the hidapi build a failing hid_init ends the process (errx), so no   *)
(* state follows it                                                        *)
FidoInit ==
    \E dbg \in BOOLEAN, calloc_ok \in BOOLEAN :
        /\ Len(manifest_funcs) < MaxFuncs
        /\ logging' = (logging \/ dbg)
        /\ RegCommit(fido_init(manifest_funcs, platform, calloc_ok),
                     [EmptyCall EXCEPT !.op = "fido_init"])

FidoExit ==
    /\ UNCHANGED logging
    /\ LET x == fido_exit(manifest_funcs)
       IN  RegCommit(x[1], [EmptyCall EXCEPT !.op = "fido_exit", !.freed = x[2]])

Register ==
    \E func \in UserFuncs, calloc_ok \in BOOLEAN :
        /\ Len(manifest_funcs) < MaxFuncs
        /\ UNCHANGED logging
        /\ LET x == fido_dev_register_manifest_func(manifest_funcs, func, calloc_ok)
           IN  RegCommit(x[1], [EmptyCall EXCEPT
                                   !.op = "fido_dev_register_manifest_func",
                                   !.arg = <<func>>,
                                   !.ret = x[2]])

DefOut == [r |-> FIDO_ERR_INTERNAL, n |-> 0]

(* the answer of a provider that is not called is not looked at: one      *)
(* stands for all                                                         *)
Manifest ==
    \E ilen \in 0..MaxIlen, outs \in [1..Len(manifest_funcs) -> ProviderOuts] :
        LET c == fido_dev_info_manifest(manifest_funcs, ilen, outs) IN
            /\ \A k \in DOMAIN outs : k > Len(c.calls) => outs[k] = DefOut
            /\ UNCHANGED logging
            /\ RegCommit(manifest_funcs, c)

InitReg ==
    /\ InitSession
    /\ fuzz = FALSE
    /\ InitRegistry
    /\ platform \in Platforms

NextReg ==
    \/ FidoInit
    \/ FidoExit
    \/ Register
    \/ Manifest

SpecReg == InitReg /\ [][NextReg]_vars

(* ============================ the claims ============================ *)
IsOpenOp(l) == l.op \in {"fido_dev_open", "fido_dev_open_with_info"}

(* the CBOR capability is bit 2 of the flags byte *)
CborBit(flags) == (flags \div 4) % 2 = 1

(* C1: an open (fido_dev_open or fido_dev_open_with_info) on a session     *)
(* that already holds a handle is refused with an error and has no effect: *)
(* io.open is not called, no frame is written, and the handle, channel id  *)
(* and attributes keep their values.                                       *)
C1_OpenRefusedWhileOpen ==
    [][(IsOpenOp(last') /\ dev.io_handle # NULL) =>
          /\ last'.ret = FIDO_ERR_INVALID_ARGUMENT
          /\ last'.nopen = 0
          /\ last'.frames = <<>>
          /\ dev'.io_handle = dev.io_handle
          /\ dev'.cid = dev.cid
          /\ dev'.attr = dev.attr
          /\ live' = live]_vars

C1_Witness ==
    /\ IsOpenOp(last)
    /\ last.ret = FIDO_ERR_INVALID_ARGUMENT
    /\ dev.io_handle # NULL
    /\ dev.cid = "0xCAFEBABE"

(* the reply read by the last open was read whole and echoes the nonce of  *)
(* the INIT frame that open wrote                                          *)
ReplyMatches(l) ==
    /\ l.rx[1].n = SizeofAttr
    /\ l.rx[1].reply.nonce = l.frames[1].data

(* C2: in a build without FIDO_FUZZ, when the INIT reply read by open has  *)
(* a nonce other than the one this open sent, or is not exactly the size   *)
(* of the attribute record, open fails, io.close is called on the handle   *)
(* this open obtained, and the session is left with no handle.             *)
C2_MismatchedReplyClosesHandle ==
    (~fuzz /\ IsOpenOp(last) /\ Len(last.rx) = 1 /\ ~ReplyMatches(last)) =>
        /\ last.ret # FIDO_OK
        /\ Len(last.opened) = 1
        /\ last.closed = last.opened
        /\ dev.io_handle = NULL
        /\ live = {}

C2_Witness ==
    /\ ~fuzz
    /\ IsOpenOp(last)
    /\ Len(last.rx) = 1
    /\ last.rx[1].n = SizeofAttr
    /\ last.rx[1].reply.nonce # last.frames[1].data
    /\ last.ret = FIDO_ERR_RX
    /\ dev.io_handle = NULL

(* C3: every INIT frame written by open is sent on the broadcast channel   *)
(* 0xFFFFFFFF, also by an open that follows a successful open and close.   *)
C3_InitOnBroadcast ==
    IsOpenOp(last) =>
        \A i \in DOMAIN last.frames :
            last.frames[i].cmd = 134 => last.frames[i].cid = "0xFFFFFFFF"

(* C4: after a successful open the session's channel id is the one of the  *)
(* accepted INIT reply, the attribute readers return that reply's values,  *)
(* and is_fido2 is true exactly when the reply's flags have the CBOR bit.  *)
C4_OpenStoresReply ==
    (IsOpenOp(last) /\ last.ret = FIDO_OK) =>
        /\ Len(last.rx) = 1
        /\ LET r == last.rx[1].reply IN
            /\ dev.cid = r.cid
            /\ fido_dev_protocol(dev) = r.protocol
            /\ fido_dev_major(dev) = r.major
            /\ fido_dev_minor(dev) = r.minor
            /\ fido_dev_build(dev) = r.build
            /\ fido_dev_flags(dev) = r.flags
            /\ fido_dev_is_fido2(dev) <=> CborBit(r.flags)

C4_Witness ==
    /\ IsOpenOp(last)
    /\ last.ret = FIDO_OK
    /\ dev.io_handle # NULL
    /\ dev.cid = "0xCAFEBABE"
    /\ fido_dev_protocol(dev) = 2
    /\ fido_dev_flags(dev) = 5
    /\ fido_dev_is_fido2(dev)

(* C5: while one open is in flight on a session, a second open from        *)
(* another thread fails instead of proceeding: two opens in flight never   *)
(* both call io.open, and the session never has more than one open handle. *)
C5_Serialized ==
    /\ \A t \in Threads, u \in Threads :
          (t # u /\ pc[t] # "idle" /\ pc[u] # "idle") =>
              ~(tl[t].called /\ tl[u].called)
    /\ Cardinality(live) <= 1

IoComplete(io) ==
    /\ io # <<>>
    /\ \A f \in {"open", "close", "read", "write"} : io[1][f] # NULLFN

(* C6: fido_dev_set_io_functions is rejected with an error when the        *)
(* session holds a handle, and when the vtable or one of its four          *)
(* functions is null; a rejection leaves the vtable unchanged, a success   *)
(* replaces the whole vtable, and nothing else in the session changes.     *)
C6_SetIo ==
    [][(last'.op = "fido_dev_set_io_functions") =>
          LET io == last'.arg
              rejected == dev.io_handle # NULL \/ ~IoComplete(io)
          IN  /\ rejected => (last'.ret # FIDO_OK /\ dev'.io = dev.io)
              /\ ~rejected => (last'.ret = FIDO_OK /\ dev'.io = io[1])
              /\ dev' = [dev EXCEPT !.io = dev'.io]
              /\ live' = live
              /\ last'.nopen = 0 /\ last'.closed = <<>>
              /\ last'.frames = <<>> /\ last'.nread = 0]_vars

C6_Witness ==
    /\ last.op = "fido_dev_set_io_functions"
    /\ last.ret = FIDO_ERR_INVALID_ARGUMENT
    /\ dev.io_handle # NULL
    /\ last.arg = <<UserIo>>
    /\ dev.io = HidIo

(* C7: close on a session that holds a handle calls io.close exactly once, *)
(* on that handle, returns success and leaves the session with no handle;  *)
(* the channel id, attributes and vtable are unchanged; an open that       *)
(* follows is not refused.                                                 *)
C7_CloseReleases ==
    [][/\ (last'.op = "fido_dev_close" /\ dev.io_handle # NULL) =>
            /\ last'.closed = <<dev.io_handle>>
            /\ last'.ret = FIDO_OK
            /\ dev'.io_handle = NULL
            /\ dev'.cid = dev.cid
            /\ dev'.attr = dev.attr
            /\ dev'.io = dev.io
            /\ live' = live \ {dev.io_handle}
            /\ ~dbl'
            /\ OpenTxCheck([dev |-> dev']) = FIDO_OK
       /\ (last.op = "fido_dev_close" /\ last.ret = FIDO_OK /\ IsOpenOp(last')) =>
            last'.ret # FIDO_ERR_INVALID_ARGUMENT]_vars

C7_Witness ==
    /\ last.op = "fido_dev_close"
    /\ last.ret = FIDO_OK
    /\ Len(last.closed) = 1
    /\ dev.io_handle = NULL
    /\ dev.cid = "0xCAFEBABE"

(* C8: on a session with no handle close returns an error without calling  *)
(* io.close, and cancel returns an error without writing a frame.          *)
C8_NoHandleRefuses ==
    [][/\ (last'.op = "fido_dev_close" /\ dev.io_handle = NULL) =>
            /\ last'.ret # FIDO_OK
            /\ last'.closed = <<>>
            /\ dev' = dev /\ live' = live
       /\ (last'.op = "fido_dev_cancel" /\ dev.io_handle = NULL) =>
            /\ last'.ret # FIDO_OK
            /\ last'.frames = <<>>
            /\ dev' = dev /\ live' = live]_vars

C8_Witness ==
    /\ last.op = "fido_dev_cancel"
    /\ last.ret = FIDO_ERR_TX
    /\ last.frames = <<>>
    /\ dev.io_handle = NULL
    /\ dev.cid = "0xCAFEBABE"

(* C9 as stated: every cancel writes exactly one CANCEL frame with an      *)
(* empty payload on the session's channel id, reads nothing, and returns   *)
(* a Tx error exactly when the write fails.                                *)
C9_Original ==
    (last.op = "fido_dev_cancel") =>
        /\ Len(last.frames) = 1
        /\ last.frames[1].cmd = 145
        /\ last.frames[1].count = 0
        /\ last.frames[1].cid = dev.cid
        /\ last.nread = 0
        /\ (last.ret = FIDO_ERR_TX) <=> ~last.frames[1].ok

(* C9, amended: on a session that holds a handle cancel makes exactly one  *)
(* write, of a CANCEL frame with an empty payload on the session's channel *)
(* id, reads nothing, changes no session state, and returns a Tx error     *)
(* exactly when the write fails (success otherwise); on a session with no  *)
(* handle it writes nothing and returns a Tx error.                        *)
C9_CancelWritesOneFrame ==
    [][(last'.op = "fido_dev_cancel") =>
          /\ dev' = dev /\ live' = live
          /\ last'.nread = 0 /\ last'.nopen = 0 /\ last'.closed = <<>>
          /\ last'.ret \in {FIDO_OK, FIDO_ERR_TX}
          /\ dev.io_handle # NULL =>
                /\ Len(last'.frames) = 1
                /\ last'.frames[1].cmd = 145
                /\ last'.frames[1].count = 0
                /\ last'.frames[1].cid = dev.cid
                /\ last'.frames[1].handle = dev.io_handle
                /\ (last'.ret = FIDO_ERR_TX) <=> ~last'.frames[1].ok
          /\ dev.io_handle = NULL =>
                /\ last'.frames = <<>>
                /\ last'.ret = FIDO_ERR_TX]_vars

C9_Witness ==
    /\ last.op = "fido_dev_cancel"
    /\ Len(last.frames) = 1
    /\ ~last.frames[1].ok
    /\ last.frames[1].cid = "0xCAFEBABE"
    /\ last.ret = FIDO_ERR_TX
    /\ dev.io_handle # NULL

(* C10: a fido_init that follows a fido_init leaves the provider list as   *)
(* the first one left it.                                                  *)
C10_InitIdempotent ==
    [][(lastm.op = "fido_init" /\ lastm'.op = "fido_init") =>
          manifest_funcs' = manifest_funcs]_vars

(* C11: after fido_exit the provider list is empty, whatever init and      *)
(* register calls came before: a manifest that follows calls no provider   *)
(* and returns success with a count of 0, a second fido_exit changes       *)
(* nothing, and a registration that follows starts from the empty list.    *)
C11_ExitFlushes ==
    [][/\ (lastm'.op = "fido_exit") =>
            /\ manifest_funcs' = <<>>
            /\ lastm'.freed = Len(manifest_funcs)
            /\ logging' = logging
       /\ (lastm.op = "fido_exit" /\ lastm'.op = "fido_dev_info_manifest") =>
            /\ lastm'.calls = <<>>
            /\ lastm'.ret = FIDO_OK
            /\ lastm'.olen = 0
            /\ lastm'.devlist = <<>>
       /\ (lastm.op = "fido_exit" /\ lastm'.op = "fido_exit") =>
            /\ manifest_funcs' = manifest_funcs
            /\ lastm'.freed = 0
       /\ (lastm.op = "fido_exit"
           /\ lastm'.op = "fido_dev_register_manifest_func"
           /\ lastm'.ret = FIDO_OK) =>
            manifest_funcs' = lastm'.arg]_vars

C11_Witness ==
    /\ lastm.op = "fido_exit"
    /\ lastm.freed = 2
    /\ manifest_funcs = <<>>

(* the providers a manifest call invoked are the nodes of the list from   *)
(* its head on, and the device list holds their entries call after call   *)
RECURSIVE EntriesOf(_)
EntriesOf(calls) ==
    IF calls = <<>> THEN <<>>
    ELSE LET c == Head(calls)
         IN  (IF c.r = FIDO_OK THEN [i \in 1..c.n |-> c.func] ELSE <<>>)
             \o EntriesOf(Tail(calls))

EnumeratesFromHead(c, list) ==
    /\ Len(c.calls) <= Len(list)
    /\ \A i \in DOMAIN c.calls : c.calls[i].func = list[i]
    /\ [i \in DOMAIN c.devlist |-> c.devlist[i][1]] = EntriesOf(c.calls)

RegisterOk(l) == l.op = "fido_dev_register_manifest_func" /\ l.ret = FIDO_OK

(* C12 as the claim states it: a successful registration adds its provider *)
(* behind the ones registered before it, so that fido_dev_info_manifest,   *)
(* which walks the list from its head, invokes the providers and fills the *)
(* device list in the order of registration.                               *)
C12_Original ==
    [][/\ RegisterOk(lastm') =>
            manifest_funcs' = Append(manifest_funcs, lastm'.arg[1])
       /\ (lastm'.op = "fido_dev_info_manifest") =>
            EnumeratesFromHead(lastm', manifest_funcs)]_vars

(* C12: a successful registration adds exactly one entry, in front of the  *)
(* entries registered before it, which are all kept in their order; a      *)
(* failed one changes nothing; fido_dev_info_manifest walks the list from  *)
(* its head, so it invokes the providers and fills the device list in the  *)
(* reverse of the order of registration, the latest provider first.        *)
C12_RegisterPrepends ==
    [][/\ RegisterOk(lastm') =>
            manifest_funcs' = <<lastm'.arg[1]>> \o manifest_funcs
       /\ (lastm'.op = "fido_dev_register_manifest_func"
           /\ lastm'.ret # FIDO_OK) =>
            manifest_funcs' = manifest_funcs
       /\ (lastm'.op = "fido_init") =>
            manifest_funcs' \in
                {manifest_funcs, PlatformFunc(platform) \o manifest_funcs}
       /\ (lastm'.op = "fido_dev_info_manifest") =>
            /\ manifest_funcs' = manifest_funcs
            /\ EnumeratesFromHead(lastm', manifest_funcs)]_vars

C12_Witness ==
    /\ RegisterOk(lastm)
    /\ Len(manifest_funcs) = 2
    /\ lastm.arg = <<manifest_funcs[1]>>
    /\ manifest_funcs[2] # manifest_funcs[1]

(* bit k of the flags byte *)
FlagBit(flags, k) == (flags \div (2 ^ k)) % 2

CborBitIndex == 2

OtherBitsKept(f, g) ==
    \A k \in (0..7) \ {CborBitIndex} : FlagBit(g, k) = FlagBit(f, k)

(* the session is as it was but for the flags, and no I/O was done *)
OnlyFlagsChange ==
    /\ dev' = [dev EXCEPT !.attr.flags = dev'.attr.flags]
    /\ live' = live
    /\ dbl' = dbl
    /\ last'.nopen = 0 /\ last'.closed = <<>>
    /\ last'.frames = <<>> /\ last'.nread = 0

(* C13: fido_dev_force_u2f clears the CBOR bit and fido_dev_force_fido2    *)
(* sets it; each leaves every other flag bit and the rest of the session   *)
(* as it was and does the same when applied again; fido_dev_is_fido2 is    *)
(* false after the first and true after the second whatever the flags      *)
(* were; force_u2f followed by force_fido2 gives back the original flags   *)
(* exactly when the CBOR bit was set in them.                              *)
C13_ForceFlags ==
    [][/\ (last'.op = "fido_dev_force_u2f") =>
            /\ OnlyFlagsChange
            /\ FlagBit(dev'.attr.flags, CborBitIndex) = 0
            /\ OtherBitsKept(dev.attr.flags, dev'.attr.flags)
            /\ ~fido_dev_is_fido2(dev')
            /\ fido_dev_force_u2f([World EXCEPT !.dev = dev']).dev = dev'
            /\ LET back == fido_dev_force_fido2([World EXCEPT !.dev = dev']).dev
               IN  /\ (back = dev) <=> (FlagBit(dev.attr.flags, CborBitIndex) = 1)
                   /\ fido_dev_is_fido2(back)
       /\ (last'.op = "fido_dev_force_fido2") =>
            /\ OnlyFlagsChange
            /\ FlagBit(dev'.attr.flags, CborBitIndex) = 1
            /\ OtherBitsKept(dev.attr.flags, dev'.attr.flags)
            /\ fido_dev_is_fido2(dev')
            /\ fido_dev_force_fido2([World EXCEPT !.dev = dev']).dev = dev'
       /\ (last.op = "fido_dev_force_u2f" /\ last'.op = "fido_dev_force_u2f") =>
            dev' = dev
       /\ (last.op = "fido_dev_force_fido2" /\ last'.op = "fido_dev_force_fido2") =>
            dev' = dev]_vars

(* the CBOR bit of an opened FIDO2 device (flags 5) has been cleared *)
C13_Witness ==
    /\ last.op = "fido_dev_force_u2f"
    /\ dev.attr.flags = 1
    /\ dev.attr.protocol = 2

(* an open that began on a session without a handle and failed *)
FailedOpenStep ==
    /\ IsOpenOp(last')
    /\ dev.io_handle = NULL
    /\ last'.ret # FIDO_OK

(* an environment in which every step of an open works: the random device *)
(* gives a nonce, io.open a free handle, the write goes through and the    *)
(* device answers with that nonce                                          *)
GoodEnv ==
    [rng |-> "ok", nonce |-> 1,
     h |-> CHOOSE g \in Handles \ live : \A k \in Handles \ live : g <= k,
     wok |-> TRUE,
     rx |-> [n |-> SizeofAttr, reply |-> CHOOSE r \in Replies : r.nonce = 1]]

(* C14: an open that starts without a handle and fails, at whichever step, *)
(* returns with no handle in the session and none left open, having made   *)
(* at most one call each of io.open, the INIT write and the read; an open  *)
(* that follows it is not refused as already open, and it can succeed.     *)
C14_FailedOpenRecoverable ==
    [][/\ FailedOpenStep =>
            /\ dev'.io_handle = NULL
            /\ live' = {}
            /\ ~dbl'
            /\ last'.nopen <= 1
            /\ Len(last'.frames) <= 1
            /\ last'.nread <= 1
            /\ last'.closed = last'.opened
            /\ OpenTxCheck([World EXCEPT !.dev = dev']) = FIDO_OK
       /\ (IsOpenOp(last) /\ last.ret # FIDO_OK /\ dev.io_handle = NULL) =>
            /\ IsOpenOp(last') => last'.ret # FIDO_ERR_INVALID_ARGUMENT
            /\ EnvOk(GoodEnv)
            /\ LET r == fido_dev_open(Fresh("fido_dev_open"), "/dev/hidraw0", GoodEnv)
               IN  r[2] = FIDO_OK /\ r[1].dev.io_handle # NULL]_vars

(* the INIT write failed: the handle just opened was closed and forgotten *)
C14_Witness ==
    /\ IsOpenOp(last)
    /\ last.ret = FIDO_ERR_TX
    /\ Len(last.frames) = 1
    /\ Len(last.closed) = 1
    /\ dev.io_handle = NULL

(* the handles io.open has returned and io.close has not yet been given   *)
(* are exactly the one the session holds                                  *)
HandleBalanced(d, open) ==
    /\ open = (IF d.io_handle # NULL THEN {d.io_handle} ELSE {})
    /\ Cardinality(open) = (IF d.io_handle # NULL THEN 1 ELSE 0)

(* C15: over any sequence of calls on one session, the successful io.open  *)
(* calls less the io.close calls number 1 when the session holds a handle  *)
(* and 0 when it does not: each call changes the set of open handles by    *)
(* what it opened and closed, that set is always the held handle alone (no *)
(* handle is dropped unclosed), and io.close is never given a handle that  *)
(* is not open (none is closed twice).                                     *)
C15_HandleBalance ==
    [][/\ HandleBalanced(dev, live) /\ HandleBalanced(dev', live')
       /\ ~dbl /\ ~dbl'
       /\ Cardinality(live') - Cardinality(live)
            = Len(last'.opened) - Len(last'.closed)
       /\ \A i \in DOMAIN last'.closed :
            last'.closed[i] \in live \cup {last'.opened[j] : j \in DOMAIN last'.opened}
       /\ \A i, j \in DOMAIN last'.closed :
            last'.closed[i] = last'.closed[j] => i = j]_vars

(* a read failed: the handle opened in the call was closed in it *)
C15_Witness ==
    /\ IsOpenOp(last)
    /\ last.ret = FIDO_ERR_RX
    /\ Len(last.opened) = 1
    /\ last.closed = last.opened
    /\ live = {}
    /\ dev.io_handle = NULL

(* the event sequences of an open, by the step at which it ends *)
OpenOrders ==
    { <<>>,
      <<"obtain_nonce">>,
      <<"obtain_nonce", "io_open">>,
      <<"obtain_nonce", "io_open", "write", "io_close">>,
      <<"obtain_nonce", "io_open", "write", "read">>,
      <<"obtain_nonce", "io_open", "write", "read", "io_close">> }

(* C16: within one open the steps come in the order: checks, nonce,        *)
(* io.open, INIT write carrying that nonce, read.  An open refused by the  *)
(* checks does nothing else; no frame is written before io.open has        *)
(* returned a handle, and it is written on that handle; no read follows a  *)
(* failed write; the nonce the reply is compared with is the one written   *)
(* in the same open.                                                       *)
C16_OpenOrder ==
    [][IsOpenOp(last') =>
        /\ last'.events \in OpenOrders
        /\ (OpenTxCheck(World) # FIDO_OK) <=> (last'.events = <<>>)
        /\ (OpenTxCheck(World) # FIDO_OK) => (dev' = dev /\ live' = live)
        /\ \A i \in DOMAIN last'.frames :
             LET f == last'.frames[i] IN
                /\ last'.opened # <<>>
                /\ f.handle # NULL
                /\ f.handle = last'.opened[1]
                /\ f.cmd = CTAP_FRAME_INIT + CTAP_CMD_INIT
                /\ f.data = dev'.nonce
                /\ f.count = SizeofNonce
        /\ (last'.frames # <<>> /\ ~last'.frames[1].ok) =>
             (last'.nread = 0 /\ last'.rx = <<>>)
        /\ (last'.nread > 0) =>
             (Len(last'.frames) = 1 /\ last'.frames[1].ok)
        /\ (last'.ret = FIDO_OK) =>
             /\ last'.events = <<"obtain_nonce", "io_open", "write", "read">>
             /\ dev'.attr.nonce = last'.frames[1].data
        /\ (~fuzz /\ last'.rx # <<>> /\ last'.rx[1].n = SizeofAttr) =>
             ((last'.ret = FIDO_OK)
                <=> (last'.rx[1].reply.nonce = last'.frames[1].data))]_vars

C16_Witness ==
    /\ IsOpenOp(last)
    /\ last.ret = FIDO_OK
    /\ last.events = <<"obtain_nonce", "io_open", "write", "read">>
    /\ last.frames[1].data = dev.nonce
    /\ last.rx[1].reply.nonce = dev.nonce

(* the reply read in the call recorded in l is a whole one / carries the  *)
(* nonce the call wrote                                                   *)
WholeReply(l) == l.rx # <<>> /\ l.rx[1].n = SizeofAttr
NonceMatches(l) == l.rx[1].reply.nonce = l.frames[1].data

(* the error code of an open step by the step it failed at; accepted(l)   *)
(* says which whole replies pass the nonce check                          *)
OpenCodeRule(accepted(_)) ==
    IsOpenOp(last') =>
        LET l == last' IN
        /\ l.ret \in {FIDO_OK, FIDO_ERR_INVALID_ARGUMENT, FIDO_ERR_INTERNAL,
                      FIDO_ERR_TX, FIDO_ERR_RX}
        /\ (l.ret = FIDO_ERR_INVALID_ARGUMENT) <=>
             \/ dev.io_handle # NULL
             \/ dev.io.open = NULLFN \/ dev.io.close = NULLFN
        /\ (l.ret = FIDO_ERR_INTERNAL) <=>
             \/ l.events = <<"obtain_nonce">>
             \/ (l.events = <<"obtain_nonce", "io_open">> /\ l.opened = <<>>)
        /\ (l.ret = FIDO_ERR_TX) <=>
             (l.frames # <<>> /\ ~l.frames[1].ok)
        /\ (l.ret = FIDO_ERR_RX) <=>
             /\ l.nread = 1
             /\ (l.rx = <<>> \/ ~WholeReply(l) \/ ~accepted(l))
        /\ (l.ret = FIDO_OK) <=>
             (l.nread = 1 /\ WholeReply(l) /\ accepted(l))
        /\ (l.ret = FIDO_OK) <=> (dev.io_handle = NULL /\ dev'.io_handle # NULL)

AcceptedIfMatching(l) == NonceMatches(l)
AcceptedInBuild(l) == fuzz \/ NonceMatches(l)

(* C17 as the claim states it: in particular a whole reply whose nonce     *)
(* differs from the one written gives FIDO_ERR_RX, and FIDO_OK is returned *)
(* only when a reply with the matching nonce was read.                     *)
C17_Original == [][OpenCodeRule(AcceptedIfMatching)]_vars

(* C17: fido_dev_open returns FIDO_ERR_INVALID_ARGUMENT when a handle is   *)
(* held or io.open/io.close is null, FIDO_ERR_INTERNAL when the nonce      *)
(* cannot be obtained or io.open returns null, FIDO_ERR_TX when the INIT   *)
(* write fails, FIDO_ERR_RX when the read fails, the reply is not a whole  *)
(* one or, in a build without FIDO_FUZZ, its nonce differs from the one    *)
(* written, and FIDO_OK otherwise: in a FIDO_FUZZ build a whole reply is   *)
(* accepted whatever its nonce.  It returns FIDO_OK exactly when the       *)
(* session holds a handle on return from a call that began without one.    *)
C17_OpenErrorCodes == [][OpenCodeRule(AcceptedInBuild)]_vars

(* a FIDO_FUZZ build accepted a whole reply carrying another nonce *)
C17_Witness ==
    /\ IsOpenOp(last)
    /\ fuzz
    /\ last.ret = FIDO_OK
    /\ WholeReply(last)
    /\ ~NonceMatches(last)
    /\ dev.io_handle # NULL

(* C18: an open that fails leaves the session's channel id and its         *)
(* protocol, major, minor, build and flags attributes as they were before  *)
(* the call, so that the readers and fido_dev_is_fido2 answer as before.   *)
C18_FailedOpenKeepsAttrs ==
    [][(IsOpenOp(last') /\ last'.ret # FIDO_OK) =>
        /\ dev'.cid = dev.cid
        /\ fido_dev_protocol(dev') = fido_dev_protocol(dev)
        /\ fido_dev_major(dev') = fido_dev_major(dev)
        /\ fido_dev_minor(dev') = fido_dev_minor(dev)
        /\ fido_dev_build(dev') = fido_dev_build(dev)
        /\ fido_dev_flags(dev') = fido_dev_flags(dev)
        /\ fido_dev_is_fido2(dev') = fido_dev_is_fido2(dev)]_vars

(* the devices reported by the first i - 1 provider calls *)
RECURSIVE RunningCount(_, _)
RunningCount(calls, i) ==
    IF i <= 1 THEN 0
    ELSE RunningCount(calls, i - 1)
         + (IF calls[i - 1].r = FIDO_OK THEN calls[i - 1].n ELSE 0)

(* no provider reported more than the capacity it was given *)
WithinCapacity(c) ==
    \A i \in DOMAIN c.calls :
        c.calls[i].r = FIDO_OK => c.calls[i].n <= c.calls[i].cap

(* C19: fido_dev_info_manifest(devlist, ilen, olen) with providers that    *)
(* each report no more than the capacity given to them: the count returned *)
(* is the sum of the counts of the providers invoked and is at most ilen;  *)
(* each provider is given the list offset by the count so far and the      *)
(* capacity ilen less that count, which does not wrap; the providers are   *)
(* invoked in list order until one fails, whose error is returned at once, *)
(* or the count reaches ilen; with no provider the result is success and   *)
(* a count of 0.                                                           *)
C19_ManifestCounts ==
    (lastm.op = "fido_dev_info_manifest" /\ WithinCapacity(lastm)) =>
        LET c == lastm
            n == Len(c.calls)
        IN  /\ c.olen = RunningCount(c.calls, n + 1)
            /\ c.olen <= c.ilen
            /\ Len(c.devlist) = c.olen
            /\ n <= Len(manifest_funcs)
            /\ \A i \in 1..n :
                 /\ c.calls[i].func = manifest_funcs[i]
                 /\ c.calls[i].off = RunningCount(c.calls, i)
                 /\ c.calls[i].off <= c.ilen
                 /\ c.calls[i].cap = c.ilen - c.calls[i].off
            /\ \A i \in 1..(n - 1) :
                 /\ c.calls[i].r = FIDO_OK
                 /\ RunningCount(c.calls, i + 1) < c.ilen
            /\ (c.ret # FIDO_OK) <=> (n > 0 /\ c.calls[n].r # FIDO_OK)
            /\ (c.ret # FIDO_OK) => c.ret = c.calls[n].r
            /\ (c.ret = FIDO_OK) => (n = Len(manifest_funcs) \/ c.olen = c.ilen)
            /\ (manifest_funcs = <<>>) =>
                 (c.ret = FIDO_OK /\ c.olen = 0 /\ c.calls = <<>>)

(* two providers filled the list *)
C19_Witness ==
    /\ lastm.op = "fido_dev_info_manifest"
    /\ WithinCapacity(lastm)
    /\ Len(lastm.calls) = 2
    /\ lastm.calls[2].off = 1
    /\ lastm.olen = lastm.ilen
    /\ lastm.ret = FIDO_OK

(* a provider reported more than its capacity and the next capacity wrapped *)
OverCapacityReached ==
    /\ lastm.op = "fido_dev_info_manifest"
    /\ ~WithinCapacity(lastm)
    /\ Len(lastm.calls) = 2
    /\ lastm.calls[2].cap > lastm.ilen

====
